---------------------------- MODULE Spec2Model ----------------------------
(***************************************************************************)
(* JSON <-> TOON converter of web/script.js.                               *)
(*                                                                         *)
(* A text is a sequence of one-character strings.  A JSON value is a       *)
(* record with the same five fields whatever its type:                     *)
(*   t    : "null", "bool", "num", "str", "arr" or "obj"                   *)
(*   n    : the number (a natural here), or 1/0 for true/false             *)
(*   s    : the characters of a string                                     *)
(*   keys : the keys of an object, in insertion order (each a text)        *)
(*   kids : the elements of an array, or the values of an object, in the   *)
(*          order of keys                                                  *)
(***************************************************************************)
EXTENDS Integers, Sequences, FiniteSets, TLC

(* ------------------------------ characters ----------------------------- *)

QUOTE == "\""
BSLASH == "\\"
COMMA == ","
SP == " "
LF == "\n"
CR == "\r"

Digits == <<"0", "1", "2", "3", "4", "5", "6", "7", "8", "9">>

IsDigit(c) == \E i \in 1..10 : Digits[i] = c

DigitVal(c) == (CHOOSE i \in 1..10 : Digits[i] = c) - 1

\* String.prototype.trim strips these from both ends (of the characters the
\* model's texts are made of).
IsWS(c) == c \in {SP, LF, CR, "\t"}

\* The regular expression `.` matches any character but a line terminator.
IsLineTerminator(c) == c \in {LF, CR}

(* ------------------------------- texts --------------------------------- *)

RECURSIVE Join(_, _)
\* Array.prototype.join(sep) on texts.
Join(ts, sep) ==
  IF ts = <<>> THEN <<>>
  ELSE IF Len(ts) = 1 THEN ts[1]
  ELSE ts[1] \o sep \o Join(Tail(ts), sep)

\* " ".repeat(n)
Spaces(n) == [i \in 1..n |-> SP]

Includes(s, c) == \E i \in 1..Len(s) : s[i] = c

RECURSIVE TrimStart(_)
TrimStart(s) == IF s # <<>> /\ IsWS(s[1]) THEN TrimStart(Tail(s)) ELSE s

RECURSIVE TrimEnd(_)
TrimEnd(s) ==
  IF s # <<>> /\ IsWS(s[Len(s)]) THEN TrimEnd(SubSeq(s, 1, Len(s) - 1)) ELSE s

\* String.prototype.trim
Trim(s) == TrimEnd(TrimStart(s))

RECURSIVE NatToText(_)
\* String(n) for a natural number: its decimal digits.
NatToText(n) ==
  IF n < 10 THEN <<Digits[n + 1]>>
  ELSE NatToText(n \div 10) \o <<Digits[(n % 10) + 1]>>

RECURSIVE TextToNat(_)
\* Number(s) for a text of decimal digits.
TextToNat(s) ==
  IF s = <<>> THEN 0
  ELSE 10 * TextToNat(SubSeq(s, 1, Len(s) - 1)) + DigitVal(s[Len(s)])

TRUE_TEXT == <<"t", "r", "u", "e">>
FALSE_TEXT == <<"f", "a", "l", "s", "e">>
NULL_TEXT == <<"n", "u", "l", "l">>
ITEMS == <<"i", "t", "e", "m", "s">>

(* ------------------------------- values -------------------------------- *)

Null == [t |-> "null", n |-> 0, s |-> <<>>, keys |-> <<>>, kids |-> <<>>]
Bool(b) == [t |-> "bool", n |-> IF b THEN 1 ELSE 0, s |-> <<>>, keys |-> <<>>, kids |-> <<>>]
Num(k) == [t |-> "num", n |-> k, s |-> <<>>, keys |-> <<>>, kids |-> <<>>]
Str(x) == [t |-> "str", n |-> 0, s |-> x, keys |-> <<>>, kids |-> <<>>]
Arr(xs) == [t |-> "arr", n |-> 0, s |-> <<>>, keys |-> <<>>, kids |-> xs]
Obj(ks, vs) == [t |-> "obj", n |-> 0, s |-> <<>>, keys |-> ks, kids |-> vs]

IsArray(v) == v.t = "arr"
\* `x && typeof x === "object" && !Array.isArray(x)`
IsPlainObject(v) == v.t = "obj"

HasKey(o, k) == \E i \in 1..Len(o.keys) : o.keys[i] = k

\* item[k]; a missing key reads as undefined, which every caller here treats
\* as null.
Get(o, k) ==
  IF HasKey(o, k) THEN o.kids[CHOOSE i \in 1..Len(o.keys) : o.keys[i] = k]
  ELSE Null

\* obj[key] = val: an existing key keeps its place, a new key goes last.
Put(o, k, v) ==
  IF HasKey(o, k)
  THEN Obj(o.keys, [i \in 1..Len(o.keys) |-> IF o.keys[i] = k THEN v ELSE o.kids[i]])
  ELSE Obj(Append(o.keys, k), Append(o.kids, v))

(* ----------------------------- jsonToToon ------------------------------ *)

\* mode || "auto"
EffectiveMode(mode) == IF mode = "" THEN "auto" ELSE mode

\* isTabularArray with the check of the key names left out: only the number
\* of keys is compared with the first element's.
IsTabularArrayByCount(data) ==
  /\ IsArray(data)
  /\ Len(data.kids) # 0
  /\ IsPlainObject(data.kids[1])
  /\ Len(data.kids[1].keys) # 0
  /\ \A i \in 1..Len(data.kids) :
       /\ IsPlainObject(data.kids[i])
       /\ Len(data.kids[i].keys) = Len(data.kids[1].keys)

\* isTabularArray
IsTabularArray(data) ==
  /\ IsArray(data)
  /\ Len(data.kids) # 0
  /\ IsPlainObject(data.kids[1])
  /\ Len(data.kids[1].keys) # 0
  /\ \A i \in 1..Len(data.kids) :
       /\ IsPlainObject(data.kids[i])
       /\ Len(data.kids[i].keys) = Len(data.kids[1].keys)
       /\ \A j \in 1..Len(data.kids[1].keys) :
            HasKey(data.kids[i], data.kids[1].keys[j])

RECURSIVE EscapeQuotes(_)
\* val.replace(/"/g, '\\"')
EscapeQuotes(s) ==
  IF s = <<>> THEN <<>>
  ELSE (IF s[1] = QUOTE THEN <<BSLASH, QUOTE>> ELSE <<s[1]>>) \o EscapeQuotes(Tail(s))

RECURSIVE JsonEscape(_)
\* The escapes JSON.stringify applies to the characters of a string.
JsonEscape(s) ==
  IF s = <<>> THEN <<>>
  ELSE (CASE s[1] = QUOTE -> <<BSLASH, QUOTE>>
          [] s[1] = BSLASH -> <<BSLASH, BSLASH>>
          [] s[1] = LF -> <<BSLASH, "n">>
          [] s[1] = CR -> <<BSLASH, "r">>
          [] s[1] = "\t" -> <<BSLASH, "t">>
          [] OTHER -> <<s[1]>>) \o JsonEscape(Tail(s))

RECURSIVE JsonStringify(_)
\* JSON.stringify(v), without indentation.
JsonStringify(v) ==
  CASE v.t = "null" -> NULL_TEXT
    [] v.t = "bool" -> IF v.n = 1 THEN TRUE_TEXT ELSE FALSE_TEXT
    [] v.t = "num" -> NatToText(v.n)
    [] v.t = "str" -> <<QUOTE>> \o JsonEscape(v.s) \o <<QUOTE>>
    [] v.t = "arr" ->
         <<"[">> \o Join([i \in 1..Len(v.kids) |-> JsonStringify(v.kids[i])], <<COMMA>>)
           \o <<"]">>
    [] v.t = "obj" ->
         <<"{">> \o Join([i \in 1..Len(v.keys) |->
                           <<QUOTE>> \o JsonEscape(v.keys[i]) \o <<QUOTE, ":">>
                             \o JsonStringify(v.kids[i])], <<COMMA>>)
           \o <<"}">>

RECURSIVE JoinedElementText(_)
\* What Array.prototype.join makes of an element: null and undefined become
\* the empty text, the others String(value).
JoinedElementText(v) ==
  CASE v.t = "null" -> <<>>
    [] v.t = "bool" -> IF v.n = 1 THEN TRUE_TEXT ELSE FALSE_TEXT
    [] v.t = "num" -> NatToText(v.n)
    [] v.t = "str" -> v.s
    [] v.t = "arr" ->
         Join([i \in 1..Len(v.kids) |-> JoinedElementText(v.kids[i])], <<COMMA>>)
    [] v.t = "obj" ->
         <<"[", "o", "b", "j", "e", "c", "t", " ", "O", "b", "j", "e", "c", "t", "]">>

\* The callback of keys.map in renderTabularArray, followed by what join(",")
\* makes of the value it returns.
CellText(val, mode) ==
  IF val.t = "str"
  THEN LET safeVal == EscapeQuotes(val.s)
       IN IF mode = "strict" THEN <<QUOTE>> \o safeVal \o <<QUOTE>>
          ELSE IF Includes(safeVal, COMMA) THEN <<QUOTE>> \o safeVal \o <<QUOTE>>
          ELSE safeVal
  ELSE IF mode = "strict" THEN JsonStringify(val)
  ELSE JoinedElementText(val)

\* One row of renderTabularArray.
RowText(item, keys, indent, mode) ==
  Spaces(indent) \o <<SP, SP>>
    \o Join([j \in 1..Len(keys) |-> CellText(Get(item, keys[j]), mode)], <<COMMA>>)

\* The header line of renderTabularArray, without its newline.
HeaderText(data, indent, headerLabel) ==
  Spaces(indent) \o headerLabel \o <<"[">> \o NatToText(Len(data.kids)) \o <<"]">>
    \o <<"{">> \o Join(data.kids[1].keys, <<COMMA>>) \o <<"}", ":">>

\* renderTabularArray
RenderTabularArray(data, indent, headerLabel, mode) ==
  HeaderText(data, indent, headerLabel) \o <<LF>>
    \o Join([i \in 1..Len(data.kids) |->
               RowText(data.kids[i], data.kids[1].keys, indent, mode)], <<LF>>)

\* formatPrimitive
FormatPrimitive(value, mode) ==
  CASE value.t = "null" -> NULL_TEXT
    [] value.t = "str" ->
         IF mode = "strict" THEN JsonStringify(value) ELSE value.s
    [] value.t = "num" -> NatToText(value.n)
    [] value.t = "bool" -> IF value.n = 1 THEN TRUE_TEXT ELSE FALSE_TEXT

RECURSIVE Stringify(_, _, _)

\* The Array.isArray branch of stringify with an empty array written as a
\* header of no columns and no rows.
RenderDashListEmptyHeader(data, indent, mode) ==
  IF data.kids = <<>>
  THEN Spaces(indent) \o ITEMS \o <<"[", "0", "]", "{", "}", ":">>
  ELSE Join([i \in 1..Len(data.kids) |->
               Spaces(indent) \o <<"-", SP>>
                 \o Trim(Stringify(data.kids[i], indent + 2, mode))],
            <<LF>>)

\* The Array.isArray branch of stringify: one "- " entry per element.
RenderDashList(data, indent, mode) ==
  Join([i \in 1..Len(data.kids) |->
          Spaces(indent) \o <<"-", SP>> \o Trim(Stringify(data.kids[i], indent + 2, mode))],
       <<LF>>)

\* The callback of Object.entries(data).map in stringify.
RenderEntry(key, value, indent, mode) ==
  IF mode # "jsonlike" /\ IsTabularArray(value)
  THEN RenderTabularArray(value, indent, key, mode)
  ELSE IF IsArray(value) \/ IsPlainObject(value)
  THEN Spaces(indent) \o key \o <<":", LF>> \o Stringify(value, indent + 2, mode)
  ELSE Spaces(indent) \o key \o <<":", SP>> \o FormatPrimitive(value, mode)

\* The object branch of stringify.
RenderObject(data, indent, mode) ==
  Join([i \in 1..Len(data.keys) |-> RenderEntry(data.keys[i], data.kids[i], indent, mode)],
       <<LF>>)

\* stringify
Stringify(data, indent, mode) ==
  IF mode # "jsonlike" /\ IsTabularArray(data)
  THEN RenderTabularArray(data, indent, ITEMS, mode)
  ELSE IF IsArray(data) THEN RenderDashList(data, indent, mode)
  ELSE IF IsPlainObject(data) THEN RenderObject(data, indent, mode)
  ELSE FormatPrimitive(data, mode)

\* jsonToToon, on the value JSON.parse gives
jsonToToon(obj, mode) == Stringify(obj, 0, EffectiveMode(mode))

(* ----------------------------- toonToJson ------------------------------ *)

RECURSIVE SplitLines(_)
\* str.split(/\r?\n/): a line ends at each "\n"; a "\r" right before that
\* "\n" belongs to the separator.  A "\r" anywhere else stays in its line.
SplitLines(s) ==
  IF ~Includes(s, LF) THEN <<s>>
  ELSE LET i == CHOOSE k \in 1..Len(s) : s[k] = LF /\ \A m \in 1..(k - 1) : s[m] # LF
           e == IF i > 1 /\ s[i - 1] = CR THEN i - 2 ELSE i - 1
       IN <<SubSeq(s, 1, e)>> \o SplitLines(SubSeq(s, i + 1, Len(s)))

RECURSIVE SplitOn(_, _)
\* str.split(c) for a one-character separator: always at least one piece.
SplitOn(s, c) ==
  IF ~Includes(s, c) THEN <<s>>
  ELSE LET i == CHOOSE k \in 1..Len(s) : s[k] = c /\ \A m \in 1..(k - 1) : s[m] # c
       IN <<SubSeq(s, 1, i - 1)>> \o SplitOn(SubSeq(s, i + 1, Len(s)), c)

\* The number of double quotes in s[from..Len(s)].
QuotesFrom(s, from) == Cardinality({k \in from..Len(s) : s[k] = QUOTE})

\* The lookahead of /,(?=(?:(?:[^"]*"){2})*[^"]*$)/: the comma at i separates
\* two values when an even number of double quotes follows it.
IsSplitComma(s, i) == s[i] = COMMA /\ QuotesFrom(s, i + 1) % 2 = 0

RECURSIVE SplitRow(_)
\* trimmed.split(/,(?=(?:(?:[^"]*"){2})*[^"]*$)/)
SplitRow(s) ==
  IF \A k \in 1..Len(s) : ~IsSplitComma(s, k) THEN <<s>>
  ELSE LET i == CHOOSE k \in 1..Len(s) :
                  IsSplitComma(s, k) /\ \A m \in 1..(k - 1) : ~IsSplitComma(s, m)
       IN <<SubSeq(s, 1, i - 1)>> \o SplitRow(SubSeq(s, i + 1, Len(s)))

\* The length of the run of digits of s that starts at index from.
DigitRun(s, from) ==
  LET stops == {k \in from..Len(s) : ~IsDigit(s[k])}
  IN IF stops = {} THEN Len(s) + 1 - from
     ELSE (CHOOSE k \in stops : \A m \in stops : k <= m) - from

\* The index of the first "}" of s at or after from, 0 when there is none.
FirstClose(s, from) ==
  LET closes == {k \in from..Len(s) : s[k] = "}"}
  IN IF closes = {} THEN 0 ELSE CHOOSE k \in closes : \A m \in closes : k <= m

\* /^(.+?)\[\d+\]\{([^}]*)\}:/ with a label of exactly L characters.
HeaderMatchesAt(s, L) ==
  LET d == DigitRun(s, L + 2)
      open == L + 3 + d
      close == FirstClose(s, open + 1)
  IN /\ L >= 1
     /\ \A k \in 1..L : ~IsLineTerminator(s[k])
     /\ Len(s) >= L + 1 /\ s[L + 1] = "["
     /\ d >= 1
     /\ Len(s) >= open /\ s[open - 1] = "]" /\ s[open] = "{"
     /\ close # 0
     /\ Len(s) >= close + 1 /\ s[close + 1] = ":"

\* trimmed.match(/^(.+?)\[\d+\]\{([^}]*)\}:/): the lazy label takes the
\* shortest length that lets the rest match; matched = FALSE for null.
HeaderMatch(s) ==
  LET Ls == {L \in 1..Len(s) : HeaderMatchesAt(s, L)}
  IN IF Ls = {} THEN [matched |-> FALSE, all |-> <<>>, label |-> <<>>, keysStr |-> <<>>]
     ELSE LET L == CHOOSE k \in Ls : \A m \in Ls : k <= m
              open == L + 3 + DigitRun(s, L + 2)
              close == FirstClose(s, open + 1)
          IN [matched |-> TRUE,
              all |-> SubSeq(s, 1, close + 1),
              label |-> SubSeq(s, 1, L),
              keysStr |-> SubSeq(s, open + 1, close - 1)]

RECURSIVE UnescapeQuotes(_)
\* val.replace(/\\"/g, '"')
UnescapeQuotes(s) ==
  IF s = <<>> THEN <<>>
  ELSE IF Len(s) >= 2 /\ s[1] = BSLASH /\ s[2] = QUOTE
  THEN <<QUOTE>> \o UnescapeQuotes(SubSeq(s, 3, Len(s)))
  ELSE <<s[1]>> \o UnescapeQuotes(Tail(s))

\* val !== "" && !isNaN(val) on the texts of the model: a run of decimal
\* digits.  (The other spellings Number() accepts need a sign, a dot, an
\* exponent, a 0x/0o/0b prefix or the word Infinity.)
IsNumeric(val) == val # <<>> /\ \A k \in 1..Len(val) : IsDigit(val[k])

\* The value the forEach callback of toonToJson stores for column index.
CoerceCell(rawValues, index) ==
  LET val == IF index <= Len(rawValues) /\ rawValues[index] # <<>>
             THEN Trim(rawValues[index]) ELSE <<>>
  IN IF Len(val) >= 2 /\ val[1] = QUOTE /\ val[Len(val)] = QUOTE
     THEN Str(UnescapeQuotes(SubSeq(val, 2, Len(val) - 1)))
     ELSE IF val = TRUE_TEXT THEN Bool(TRUE)
     ELSE IF val = FALSE_TEXT THEN Bool(FALSE)
     ELSE IF IsNumeric(val) THEN Num(TextToNat(val))
     ELSE Str(val)

RECURSIVE FillRecord(_, _, _, _)
\* currentKeys.forEach((key, index) => obj[key] = ...), from column index on.
FillRecord(obj, keys, rawValues, index) ==
  IF index > Len(keys) THEN obj
  ELSE FillRecord(Put(obj, keys[index], CoerceCell(rawValues, index)),
                  keys, rawValues, index + 1)

\* The record toonToJson builds from a data row.
ParseRow(keys, trimmed) == FillRecord(Obj(<<>>, <<>>), keys, SplitRow(trimmed), 1)

\* The locals of toonToJson before its loop.  currentArray is a reference:
\* `target` says which array it points to ("none": null, "root": rootArray,
\* "label": rootObject[currentLabel]).
ParserStart ==
  [currentKeys |-> <<>>, target |-> "none", currentLabel |-> <<>>,
   rootObject |-> Obj(<<>>, <<>>), rootArray |-> Arr(<<>>),
   hasRootArray |-> FALSE, hasLabeledTables |-> FALSE]

\* The count a header declares, read from the text the pattern matched.
DeclaredCount(headerMatch) ==
  LET from == Len(headerMatch.label) + 2
  IN TextToNat(SubSeq(headerMatch.all, from, from + DigitRun(headerMatch.all, from) - 1))

\* The header branch with the declared count enforced: the new array starts
\* with one empty record per declared row.
StartTablePadded(st, headerMatch) ==
  LET currentLabel == Trim(headerMatch.label)
      currentKeys == [i \in 1..Len(SplitOn(headerMatch.keysStr, COMMA)) |->
                        Trim(SplitOn(headerMatch.keysStr, COMMA)[i])]
      padded == Arr([i \in 1..DeclaredCount(headerMatch) |-> Obj(<<>>, <<>>)])
  IN IF currentLabel # <<>> /\ currentLabel # ITEMS
     THEN [st EXCEPT !.currentKeys = currentKeys, !.currentLabel = currentLabel,
                     !.target = "label",
                     !.rootObject = Put(st.rootObject, currentLabel, padded),
                     !.hasLabeledTables = TRUE]
     ELSE [st EXCEPT !.currentKeys = currentKeys, !.currentLabel = currentLabel,
                     !.target = "root",
                     !.rootArray = padded, !.hasRootArray = TRUE]

\* The branch of the loop body taken when the line matches the header pattern.
StartTable(st, headerMatch) ==
  LET currentLabel == Trim(headerMatch.label)
      currentKeys == [i \in 1..Len(SplitOn(headerMatch.keysStr, COMMA)) |->
                        Trim(SplitOn(headerMatch.keysStr, COMMA)[i])]
  IN IF currentLabel # <<>> /\ currentLabel # ITEMS
     THEN [st EXCEPT !.currentKeys = currentKeys, !.currentLabel = currentLabel,
                     !.target = "label",
                     !.rootObject = Put(st.rootObject, currentLabel, Arr(<<>>)),
                     !.hasLabeledTables = TRUE]
     ELSE [st EXCEPT !.currentKeys = currentKeys, !.currentLabel = currentLabel,
                     !.target = "root",
                     !.rootArray = Arr(<<>>), !.hasRootArray = TRUE]

\* currentArray.push(obj)
PushRecord(st, obj) ==
  IF st.target = "root"
  THEN [st EXCEPT !.rootArray = Arr(Append(st.rootArray.kids, obj))]
  ELSE [st EXCEPT !.rootObject =
          Put(st.rootObject, st.currentLabel,
              Arr(Append(Get(st.rootObject, st.currentLabel).kids, obj)))]

\* The branch of the loop body taken by a line that is no header.
DataLine(st, trimmed) ==
  IF st.target = "none" THEN st
  ELSE PushRecord(st, ParseRow(st.currentKeys, trimmed))

\* One iteration of `for (let line of lines)`.
ParseLine(st, line) ==
  LET trimmed == Trim(line)
  IN IF trimmed = <<>> THEN st
     ELSE IF HeaderMatch(trimmed).matched THEN StartTable(st, HeaderMatch(trimmed))
     ELSE DataLine(st, trimmed)

RECURSIVE ParseLines(_, _)
ParseLines(st, lines) ==
  IF lines = <<>> THEN st ELSE ParseLines(ParseLine(st, Head(lines)), Tail(lines))

\* The result selection with the two tests in the other order: a non-empty
\* root array wins over the labeled tables.
SelectResultArrayFirst(st) ==
  IF st.hasRootArray /\ Len(st.rootArray.kids) > 0 THEN st.rootArray
  ELSE IF st.hasLabeledTables THEN st.rootObject
  ELSE Arr(<<>>)

\* The value toonToJson returns from the locals its loop leaves.
SelectResult(st) ==
  IF st.hasLabeledTables THEN st.rootObject
  ELSE IF st.hasRootArray /\ Len(st.rootArray.kids) > 0 THEN st.rootArray
  ELSE Arr(<<>>)

\* toonToJson
toonToJson(toonStr) == SelectResult(ParseLines(ParserStart, SplitLines(Trim(toonStr))))

(* --------------------------- the documents ----------------------------- *)

MaxStrLen == 2
MaxRows == 2
MaxElems == 2

A == <<"a">>
B == <<"b">>

Modes == {"auto", "strict", "jsonlike"}

\* The characters the strings of the documents are made of.
StrChars == {"a", COMMA, QUOTE}

Strings == UNION {[1..k -> StrChars] : k \in 0..MaxStrLen}

\* Primitive values: every string over StrChars, two strings that read as a
\* number and as a boolean, null, the booleans and two numbers.
RichCells ==
  {Str(x) : x \in Strings} \cup {Str(<<"7">>), Str(TRUE_TEXT)}
    \cup {Null, Bool(TRUE), Bool(FALSE), Num(7), Num(12)}

ThinCells == {Null, Num(1), Str(<<>>), Str(A), Str(<<"a", COMMA>>)}

\* One-row tables of two columns.
TabularOneRow == {Arr(<<Obj(<<A, B>>, <<x, y>>)>>) : x, y \in RichCells}

\* Tables of one column and up to MaxRows rows.
TabularRows ==
  UNION {{Arr([i \in 1..r |-> Obj(<<A>>, <<f[i]>>)]) : f \in [1..r -> ThinCells]} :
         r \in 1..MaxRows}

\* What an array may hold: primitives, the empty object and array, objects of
\* several key sets, a table, and an object that owns a table.
Elems ==
  ThinCells \cup
  {Obj(<<>>, <<>>), Arr(<<>>),
   Obj(<<A>>, <<Str(A)>>), Obj(<<B>>, <<Num(1)>>),
   Obj(<<A, B>>, <<Str(A), Null>>), Obj(<<B, A>>, <<Null, Str(A)>>),
   Arr(<<Obj(<<A>>, <<Num(1)>>)>>),
   Obj(<<A>>, <<Arr(<<Obj(<<B>>, <<Num(1)>>)>>)>>)}

Arrays == UNION {[1..k -> Elems] : k \in 0..MaxElems}

ArrayDocs == {Arr(xs) : xs \in Arrays}

\* What a key of an object may hold.
ObjVals ==
  ThinCells \cup
  {Obj(<<>>, <<>>), Arr(<<>>), Arr(<<Obj(<<A>>, <<Num(1)>>)>>),
   Arr(<<Num(1), Str(A)>>), Obj(<<A>>, <<Str(<<"a", COMMA>>)>>)}

ObjectDocs ==
  {Obj(<<>>, <<>>)} \cup {Obj(<<A>>, <<x>>) : x \in ObjVals}
    \cup {Obj(<<A, B>>, <<x, y>>) : x, y \in ObjVals}

Docs == TabularOneRow \cup TabularRows \cup ArrayDocs \cup ObjectDocs \cup RichCells

(* ---------------------------- the TOON texts --------------------------- *)

MaxLines == 3
MaxCount == 1

Labels == {ITEMS, <<"u">>, <<"v">>}

HeaderLine(label, count) ==
  [kind |-> "header", label |-> label, count |-> count, cells |-> <<>>, text |-> <<>>]
RowLine(cells) ==
  [kind |-> "row", label |-> <<>>, count |-> 0, cells |-> cells, text |-> <<>>]
OtherLine(text) ==
  [kind |-> "other", label |-> <<>>, count |-> 0, cells |-> <<>>, text |-> text]
BlankLine ==
  [kind |-> "blank", label |-> <<>>, count |-> 0, cells |-> <<>>, text |-> <<>>]

\* The lines a text is made of: headers `label[count]{a,b}:`, rows of one or
\* two cells, a `key: value` line, a dash-list line and the blank line.
LineKinds ==
  {HeaderLine(l, c) : l \in Labels, c \in 0..MaxCount}
    \cup {RowLine(<<<<"1">>>>), RowLine(<<A, <<"2">>>>)}
    \cup {OtherLine(<<"k", ":", SP, "x">>), OtherLine(<<"-", SP, "x">>)}
    \cup {BlankLine}

LineText(d) ==
  CASE d.kind = "header" ->
         d.label \o <<"[">> \o NatToText(d.count) \o <<"]", "{", "a", COMMA, "b", "}", ":">>
    [] d.kind = "row" -> <<SP, SP>> \o Join(d.cells, <<COMMA>>)
    [] d.kind = "other" -> d.text
    [] d.kind = "blank" -> <<>>

Seps == {<<LF>>, <<CR, LF>>, <<CR>>}

LineSeqs == UNION {[1..k -> LineKinds] : k \in 0..MaxLines}

TextOf(ds, sp) == Join([i \in 1..Len(ds) |-> LineText(ds[i])], sp)

(* --------------------------- the state machine ------------------------- *)

VARIABLES
  pc,      \* "json": a document waits for jsonToToon; "toon": a text waits for
           \* toonToJson; "scan": toonToJson is in its loop; "done": it returned
  mode,    \* the mode given to jsonToToon
  doc,     \* the document given to jsonToToon
  toon,    \* the TOON text: jsonToToon's result, or the text given to toonToJson
  rest,    \* the lines the loop of toonToJson has not read yet
  st,      \* the locals of toonToJson
  result,  \* what toonToJson returned
  lines,   \* the lines the given text was made of (for a given text)
  sep      \* the separator that joined them

vars == <<pc, mode, doc, toon, rest, st, result, lines, sep>>

\* A document and a mode are given to jsonToToon.
Init ==
  /\ pc = "json"
  /\ mode \in Modes
  /\ doc \in Docs
  /\ toon = <<>>
  /\ rest = <<>>
  /\ st = ParserStart
  /\ result = Null
  /\ lines = <<>>
  /\ sep = <<LF>>

\* A text is given to toonToJson, its lines joined by "\n".
InitParse ==
  /\ pc = "toon"
  /\ mode = "auto"
  /\ doc = Null
  /\ lines \in LineSeqs
  /\ sep = <<LF>>
  /\ toon = TextOf(lines, sep)
  /\ rest = <<>>
  /\ st = ParserStart
  /\ result = Null

\* A text is given to toonToJson, its lines joined by any of the separators.
InitSep ==
  /\ pc = "toon"
  /\ mode = "auto"
  /\ doc = Null
  /\ lines \in LineSeqs
  /\ sep \in Seps
  /\ toon = TextOf(lines, sep)
  /\ rest = <<>>
  /\ st = ParserStart
  /\ result = Null

\* jsonToToon(doc, mode)
Serialize ==
  /\ pc = "json"
  /\ toon' = jsonToToon(doc, mode)
  /\ pc' = "toon"
  /\ UNCHANGED <<mode, doc, rest, st, result, lines, sep>>

\* toonToJson up to its loop: the lines and the initial locals.
Split ==
  /\ pc = "toon"
  /\ rest' = SplitLines(Trim(toon))
  /\ st' = ParserStart
  /\ pc' = "scan"
  /\ UNCHANGED <<mode, doc, toon, result, lines, sep>>

\* The loop reads a blank line.
SkipBlank ==
  /\ pc = "scan" /\ rest # <<>>
  /\ Trim(Head(rest)) = <<>>
  /\ st' = ParseLine(st, Head(rest))
  /\ rest' = Tail(rest)
  /\ UNCHANGED <<pc, mode, doc, toon, result, lines, sep>>

\* The loop reads a header line.
ReadHeader ==
  /\ pc = "scan" /\ rest # <<>>
  /\ Trim(Head(rest)) # <<>>
  /\ HeaderMatch(Trim(Head(rest))).matched
  /\ st' = ParseLine(st, Head(rest))
  /\ rest' = Tail(rest)
  /\ UNCHANGED <<pc, mode, doc, toon, result, lines, sep>>

\* The loop reads a line that is no header while no table is active.
IgnoreLine ==
  /\ pc = "scan" /\ rest # <<>>
  /\ Trim(Head(rest)) # <<>>
  /\ ~HeaderMatch(Trim(Head(rest))).matched
  /\ st.target = "none"
  /\ st' = ParseLine(st, Head(rest))
  /\ rest' = Tail(rest)
  /\ UNCHANGED <<pc, mode, doc, toon, result, lines, sep>>

\* The loop reads a line that is no header while a table is active.
ReadRow ==
  /\ pc = "scan" /\ rest # <<>>
  /\ Trim(Head(rest)) # <<>>
  /\ ~HeaderMatch(Trim(Head(rest))).matched
  /\ st.target # "none"
  /\ st' = ParseLine(st, Head(rest))
  /\ rest' = Tail(rest)
  /\ UNCHANGED <<pc, mode, doc, toon, result, lines, sep>>

\* The loop is over: toonToJson returns.
Return ==
  /\ pc = "scan" /\ rest = <<>>
  /\ result' = SelectResult(st)
  /\ pc' = "done"
  /\ UNCHANGED <<mode, doc, toon, rest, st, lines, sep>>

Parse == Split \/ SkipBlank \/ ReadHeader \/ IgnoreLine \/ ReadRow \/ Return

Next == Serialize \/ Parse

\* jsonToToon on a document, then toonToJson on the text it gave.
Spec == Init /\ [][Next]_vars

\* toonToJson on a given text.
SpecParse == InitParse /\ [][Parse]_vars

\* toonToJson on the same lines joined by "\n", "\r\n" or "\r".
SpecSep == InitSep /\ [][Parse]_vars


(* ------------------------------ properties ----------------------------- *)

KeySet(o) == {o.keys[i] : i \in 1..Len(o.keys)}

\* A tabular array as the data model defines it: a non-empty array of objects
\* that have at least one key and all the key set of the first.
Uniform(v) ==
  /\ v.t = "arr" /\ v.kids # <<>>
  /\ \A i \in 1..Len(v.kids) :
       /\ v.kids[i].t = "obj"
       /\ v.kids[i].keys # <<>>
       /\ KeySet(v.kids[i]) = KeySet(v.kids[1])

AllPrimitive(v) == \A i \in 1..Len(v.kids) : v.kids[i].t \in {"null", "bool", "num", "str"}

\* A uniform array whose objects hold only strings, numbers, booleans and null.
FlatTable(v) == Uniform(v) /\ \A i \in 1..Len(v.kids) : AllPrimitive(v.kids[i])

\* The lines of a text jsonToToon wrote.
TextLines(text) == SplitOn(text, LF)

\* What a string comes back as when its token reads as a number or a boolean.
Reading(x) ==
  IF x = TRUE_TEXT THEN Bool(TRUE)
  ELSE IF x = FALSE_TEXT THEN Bool(FALSE)
  ELSE IF x # <<>> /\ \A k \in 1..Len(x) : IsDigit(x[k]) THEN Num(TextToNat(x))
  ELSE Str(x)

CameBack(orig, back) == back = orig \/ (orig.t = "str" /\ back = Reading(orig.s))

\* C1: for every non-empty array of objects with the same key set and flat
\* values, in mode auto and in mode strict, toonToJson(jsonToToon(array, mode))
\* is the array again: as many records, each with the keys of the original
\* and, under each key, the original value (or the number or boolean its
\* token reads as).
C1_RoundTrip ==
  pc = "done" /\ mode \in {"auto", "strict"} /\ FlatTable(doc) =>
    /\ result.t = "arr"
    /\ Len(result.kids) = Len(doc.kids)
    /\ \A i \in 1..Len(doc.kids) :
         /\ KeySet(result.kids[i]) = KeySet(doc.kids[i])
         /\ \A j \in 1..Len(doc.kids[i].keys) :
              CameBack(doc.kids[i].kids[j], Get(result.kids[i], doc.kids[i].keys[j]))

\* C2: a string that contains a comma, held as a field of an object of a
\* uniform array, comes back from toonToJson(jsonToToon(array, mode)) as
\* exactly that string in that field.  Stated for the modes auto and strict,
\* the two that write the array as a table (in mode jsonlike no table is
\* written and toonToJson returns no record at all).
C2_QuotedComma ==
  pc = "done" /\ mode \in {"auto", "strict"} /\ Uniform(doc) =>
    \A i \in 1..Len(doc.kids) : \A j \in 1..Len(doc.kids[i].keys) :
      LET cell == doc.kids[i].kids[j]
      IN cell.t = "str" /\ Includes(cell.s, COMMA) =>
           /\ result.t = "arr"
           /\ i <= Len(result.kids)
           /\ Get(result.kids[i], doc.kids[i].keys[j]) = cell

RECURSIVE Escaped(_)
\* A string with a backslash put before each of its double quotes.
Escaped(x) ==
  IF x = <<>> THEN <<>>
  ELSE (IF Head(x) = QUOTE THEN <<BSLASH, QUOTE>> ELSE <<Head(x)>>) \o Escaped(Tail(x))

\* The one rule of string formatting: quotes escaped; wrapped in quotes always
\* in mode strict, and only when there is a comma in the other modes.
RuleText(x, m) ==
  IF m = "strict" \/ Includes(x, COMMA) THEN <<QUOTE>> \o Escaped(x) \o <<QUOTE>>
  ELSE Escaped(x)

\* C6: jsonToToon writes a string by the one rule wherever the string stands:
\* as the document root, as the scalar of a `key: value` line, as a dash-list
\* element and as a cell of a table row.
C6_OneStringRule ==
  pc # "json" =>
    /\ doc.t = "str" => toon = RuleText(doc.s, mode)
    /\ doc.t = "obj" /\ AllPrimitive(doc) =>
         \A i \in 1..Len(doc.keys) :
           doc.kids[i].t = "str" =>
             TextLines(toon)[i] = doc.keys[i] \o <<":", SP>> \o RuleText(doc.kids[i].s, mode)
    /\ doc.t = "arr" /\ AllPrimitive(doc) =>
         \A i \in 1..Len(doc.kids) :
           doc.kids[i].t = "str" =>
             TextLines(toon)[i] = <<"-", SP>> \o RuleText(doc.kids[i].s, mode)
    /\ FlatTable(doc) /\ mode # "jsonlike" =>
         \A i \in 1..Len(doc.kids) :
           (\A j \in 1..Len(doc.kids[1].keys) : Get(doc.kids[i], doc.kids[1].keys[j]).t = "str") =>
             TextLines(toon)[i + 1] =
               <<SP, SP>> \o Join([j \in 1..Len(doc.kids[1].keys) |->
                                    RuleText(Get(doc.kids[i], doc.kids[1].keys[j]).s, mode)],
                                  <<COMMA>>)

\* C7: jsonToToon writes null as the text `null` in every mode, wherever the
\* null stands: as the document root, as the scalar of a `key: value` line, as
\* a dash-list element and as a cell of a table row.
C7_NullEverywhere ==
  pc # "json" =>
    /\ doc = Null => toon = NULL_TEXT
    /\ doc.t = "obj" /\ AllPrimitive(doc) =>
         \A i \in 1..Len(doc.keys) :
           doc.kids[i] = Null => TextLines(toon)[i] = doc.keys[i] \o <<":", SP>> \o NULL_TEXT
    /\ doc.t = "arr" /\ AllPrimitive(doc) =>
         \A i \in 1..Len(doc.kids) :
           doc.kids[i] = Null => TextLines(toon)[i] = <<"-", SP>> \o NULL_TEXT
    /\ FlatTable(doc) /\ mode # "jsonlike" =>
         \A i \in 1..Len(doc.kids) :
           (\A j \in 1..Len(doc.kids[i].kids) : doc.kids[i].kids[j] = Null) =>
             TextLines(toon)[i + 1] =
               <<SP, SP>> \o Join([j \in 1..Len(doc.kids[i].kids) |-> NULL_TEXT], <<COMMA>>)

\* An array that does not qualify as tabular: it has elements, and one of them
\* is no object, has no key, or has another key set than the first.
Disqualified(v) == v.t = "arr" /\ v.kids # <<>> /\ ~Uniform(v)

RECURSIVE HoldsTable(_)
\* A value that is a tabular array or holds one at any depth.
HoldsTable(v) == Uniform(v) \/ \E i \in 1..Len(v.kids) : HoldsTable(v.kids[i])

\* The text is a dash list of n entries: n lines start with "- ", and every
\* other line is indented under one of them.
DashListOf(text, n) ==
  LET L == TextLines(text)
      IsEntry(i) == Len(L[i]) >= 2 /\ L[i][1] = "-" /\ L[i][2] = SP
  IN /\ Cardinality({i \in 1..Len(L) : IsEntry(i)}) = n
     /\ IsEntry(1)
     /\ \A i \in 1..Len(L) : ~IsEntry(i) => L[i] # <<>> /\ L[i][1] = SP

\* C8 as first stated: in every mode an array that does not qualify as tabular
\* gets no header line; it is written as a dash list with one "- " entry per
\* element, and toonToJson of that text returns an empty result.
C8_DashListParsesEmpty ==
  pc = "done" /\ Disqualified(doc) =>
    /\ DashListOf(toon, Len(doc.kids))
    /\ result = Arr(<<>>)

\* C8, amended: in every mode an array that does not qualify as tabular gets
\* no header line and is written as a dash list with one "- " entry per
\* element; toonToJson of that text returns the empty array in mode jsonlike,
\* and in the modes auto and strict when no element holds a tabular array.
C8_DashListNoHeader ==
  pc = "done" /\ Disqualified(doc) =>
    /\ DashListOf(toon, Len(doc.kids))
    /\ (mode = "jsonlike" \/ \A i \in 1..Len(doc.kids) : ~HoldsTable(doc.kids[i])) =>
         result = Arr(<<>>)

\* Two objects of different key sets were written as two dash entries in mode
\* auto and parsed back to the empty array.
C8_Witness ==
  /\ pc = "done" /\ mode = "auto"
  /\ doc = Arr(<<Obj(<<A>>, <<Str(A)>>), Obj(<<B>>, <<Num(1)>>)>>)
  /\ toon = <<"-", SP, "a", ":", SP, "a", LF, "-", SP, "b", ":", SP, "1">>
  /\ result = Arr(<<>>)

\* A text that is one header line and nothing else.
HeaderOnly(text) ==
  /\ text # <<>>
  /\ ~Includes(text, LF)
  /\ \E i \in 1..Len(text) : text[i] = "["
  /\ text[Len(text)] = ":"

\* C9 as first stated: in every mode jsonToToon gives the empty string for the
\* empty object, and for the empty array a header with zero rows, not the
\* empty string.
C9_EmptyArrayHeader ==
  pc # "json" =>
    /\ doc = Obj(<<>>, <<>>) => toon = <<>>
    /\ doc = Arr(<<>>) => HeaderOnly(toon)

\* C9, amended: in every mode jsonToToon gives the empty string for the empty
\* object and the empty string for the empty array (no header line).
C9_EmptyInputsEmptyText ==
  pc # "json" /\ doc \in {Obj(<<>>, <<>>), Arr(<<>>)} => toon = <<>>

\* jsonToToon has run on the empty array in mode strict and gave the empty
\* string.
C9_Witness == pc = "toon" /\ mode = "strict" /\ doc = Arr(<<>>) /\ toon = <<>>

IsHeader(d) == d.kind = "header"
IsBlank(d) == d.kind = "blank"

RECURSIVE Without(_, _)
\* The lines ds without those of kind k.
Without(ds, k) ==
  IF ds = <<>> THEN <<>>
  ELSE (IF Head(ds).kind = k THEN <<>> ELSE <<Head(ds)>>) \o Without(Tail(ds), k)

\* C3: a line that is no table header and no row of a table (a `key: value`
\* line, a dash-list line) adds no record and no key to what toonToJson
\* returns, wherever it stands: the result is that of the text without such
\* lines.
C3_NonTabularIgnored ==
  pc = "done" => result = toonToJson(TextOf(Without(lines, "other"), sep))

\* The labels other than `items` of the header lines of the text.
LabelsSeen == {lines[i].label : i \in {k \in 1..Len(lines) : IsHeader(lines[k])}} \ {ITEMS}

\* C4: toonToJson returns an array when the only headers of the text carry the
\* label `items`, the empty array when the text has no header, and an object
\* whose keys are the labels of the tables as soon as a header carries another
\* label, whether or not an `items` block stands before or after it.
C4_LabeledWins ==
  pc = "done" =>
    /\ LabelsSeen = {} => result.t = "arr"
    /\ (\A i \in 1..Len(lines) : ~IsHeader(lines[i])) => result = Arr(<<>>)
    /\ LabelsSeen # {} =>
         /\ result.t = "obj"
         /\ KeySet(result) = LabelsSeen
         /\ \A i \in 1..Len(result.kids) : result.kids[i].t = "arr"

\* An `items` block with a row stands before a table labeled `u`: the result
\* is the object keyed by `u`.
C4_Witness ==
  /\ pc = "done"
  /\ lines = <<HeaderLine(ITEMS, 1), RowLine(<<<<"1">>>>), HeaderLine(<<"u">>, 0)>>
  /\ result = Obj(<<<<"u">>>>, <<Arr(<<>>)>>)

RECURSIVE DropBlankHead(_)
DropBlankHead(ds) == IF ds # <<>> /\ IsBlank(Head(ds)) THEN DropBlankHead(Tail(ds)) ELSE ds

RECURSIVE DropBlankTail(_)
DropBlankTail(ds) ==
  IF ds # <<>> /\ IsBlank(ds[Len(ds)]) THEN DropBlankTail(SubSeq(ds, 1, Len(ds) - 1)) ELSE ds

\* The lines of the text between its first and its last non-blank line: the
\* lines the loop reads, one by one.
Core == DropBlankTail(DropBlankHead(lines))

\* How many of them the loop has read.
LinesRead == IF Core = <<>> THEN 0 ELSE Len(Core) - Len(rest)

\* The value of a cell of the rows the texts are made of.
ExpectedValue(token) ==
  IF token = <<"1">> THEN Num(1) ELSE IF token = <<"2">> THEN Num(2) ELSE Str(token)

\* The record of a data row under the keys a, b of the headers: a cell per
\* key, the empty string for a missing cell; a line that is no row of cells is
\* read as one cell.
ExpectedRecord(d) ==
  IF d.kind = "row"
  THEN Obj(<<A, B>>, <<ExpectedValue(d.cells[1]),
                       IF Len(d.cells) >= 2 THEN ExpectedValue(d.cells[2]) ELSE Str(<<>>)>>)
  ELSE Obj(<<A, B>>, <<Str(d.text), Str(<<>>)>>)

\* C5: whatever count n a header declares, the array toonToJson builds for
\* its table holds exactly the k data rows read since that header, one record
\* per row in row order: at every point of the scan, and so when the next
\* header or the end of the input is reached.  (A data row is any non-blank
\* line after the header that is no header.)
C5_CountIgnored ==
  pc \in {"scan", "done"} =>
    LET hs == {h \in 1..LinesRead : IsHeader(Core[h])}
    IN hs # {} =>
         LET h == CHOOSE x \in hs : \A y \in hs : y <= x
             rows == Without(SubSeq(Core, h + 1, LinesRead), "blank")
             built == IF Core[h].label = ITEMS THEN st.rootArray
                      ELSE Get(st.rootObject, Core[h].label)
         IN built.kids = [i \in 1..Len(rows) |-> ExpectedRecord(rows[i])]

\* A header that declares 0 rows is followed by two rows: the array has the
\* two records.
C5_Witness ==
  /\ pc = "done"
  /\ lines = <<HeaderLine(ITEMS, 0), RowLine(<<<<"1">>>>), RowLine(<<A, <<"2">>>>)>>
  /\ result = Arr(<<Obj(<<A, B>>, <<Num(1), Str(<<>>)>>), Obj(<<A, B>>, <<Str(A), Num(2)>>)>>)

\* C10: toonToJson returns the same value whichever of "\n", "\r\n" and "\r"
\* joins the lines of the text.
C10_SeparatorsAgree ==
  pc = "done" => result = toonToJson(TextOf(lines, <<LF>>))

=============================================================================
